---- MODULE Spec2Model ----
(***************************************************************************)
(* ID-CARD-GEN: the card compositing and sheet tiling engine of            *)
(* src/main.py and src/volunteers.py (class IDCardGenerator and the        *)
(* __main__ driver).                                                       *)
(*                                                                         *)
(* Spec      the driver run and direct calls of create_id_cards_sheet      *)
(* SpecCrop  the photo crop of create_id_card, step by step                *)
(* SpecWrap  wrap_text of src/volunteers.py                                *)
(***************************************************************************)
EXTENDS Integers, Sequences, FiniteSets, TLC

VARIABLES
    pc,             \* position of the running code
    caller,         \* who called create_id_cards_sheet: "driver" | "direct" | "none"
    df,             \* the roster (pd.read_excel), a sequence of rows
    fonts,          \* which font files can be loaded: [name_ok, info_ok]
    num_sheets,     \* __main__: num_sheets
    sheet_num,      \* __main__: sheet_num
    students_data,  \* create_id_cards_sheet: the batch it was given
    idx,            \* create_id_cards_sheet: enumerate index
    a4_sheet,       \* create_id_cards_sheet: the pastes made on the sheet, in order
    outputs,        \* the sheets saved by the driver, in order
    rendered,       \* every create_id_card call made so far: <<sheet, idx, Name>>
    photo,          \* crop: the source photo [W, H] and the detector's answer
    profile_photo,  \* crop: the region of the source the current image shows
    resized,        \* crop: the region handed to resize(photo_size)
    text,           \* wrap_text: the input text, a sequence of characters
    max_width,      \* wrap_text: the maximum width
    lines,          \* wrap_text: the returned lines
    generator,      \* the IDCardGenerator object: its template and geometry fields
    variant,        \* name font: which file's create_id_card runs
    name,           \* name font: the name, written as its length
    name_font_size  \* name font: the size selected for the name font

vars == <<pc, caller, df, fonts, num_sheets, sheet_num, students_data, idx,
          a4_sheet, outputs, rendered, photo, profile_photo, resized,
          text, max_width, lines, generator, variant, name, name_font_size>>

driverVars == <<caller, df, fonts, num_sheets, sheet_num, students_data, idx,
                a4_sheet, outputs, rendered, generator>>
cropVars == <<photo, profile_photo, resized>>
wrapVars == <<text, max_width, lines>>
fontVars == <<variant, name, name_font_size>>

-----------------------------------------------------------------------------
(* Bounds of the model *)

MaxRows == 23       \* longest roster
MaxDim == 8         \* largest photo width and height
MaxTextLen == 5     \* longest wrap_text input, in characters
MaxWidth == 4       \* largest max_width given to wrap_text
MaxNameLen == 30    \* longest name given to the name font selection

-----------------------------------------------------------------------------
(* Python helpers *)

Min(a, b) == IF a < b THEN a ELSE b
Max(a, b) == IF a > b THEN a ELSE b

\* the value None
None == [none |-> TRUE]

\* seq[lo:hi] of a Python sequence (0-based, hi exclusive, clipped to the length)
Slice(seq, lo, hi) ==
    LET a == Min(lo, Len(seq))
        b == Min(hi, Len(seq))
    IN  IF a >= b THEN <<>> ELSE [k \in 1..(b - a) |-> seq[a + k]]

-----------------------------------------------------------------------------
(* IDCardGenerator.__init__ *)

a4_width == 3900
a4_height == 5700
card_base_width == 768
card_base_height == 1299

horizontal_padding == (a4_width - (card_base_width * 5)) \div 6
vertical_padding == (a4_height - (card_base_height * 4)) \div 5

template_width == card_base_width
template_height == card_base_height

\* Image.open(template_path): the template bitmap, as the file it was loaded
\* from and the names whose photo and text have been drawn onto it
LoadTemplate(template_path) == [file |-> template_path, drawn |-> {}]

\* the object __init__ builds
NewGenerator(template_path) ==
    [template |-> LoadTemplate(template_path),
     a4_width |-> a4_width,
     a4_height |-> a4_height,
     card_base_width |-> card_base_width,
     card_base_height |-> card_base_height,
     horizontal_padding |-> horizontal_padding,
     vertical_padding |-> vertical_padding,
     template_width |-> template_width,
     template_height |-> template_height,
     scale_factor |-> 1]

-----------------------------------------------------------------------------
(* create_id_card: the photo crop.  An image is the rectangle of the source  *)
(* photo it shows, in source pixel coordinates; its size is the rectangle's. *)

Width(img) == img.right - img.left
Height(img) == img.bottom - img.top

\* Image.open(...): the whole decoded photo
ImageOpen(p) == [left |-> 0, top |-> 0, right |-> p.W, bottom |-> p.H]

\* img.crop((l, t, r, b)): the box is in img's own coordinates
Crop(img, l, t, r, b) ==
    [left |-> img.left + l, top |-> img.top + t,
     right |-> img.left + r, bottom |-> img.top + b]

\* int(face_height * 1.5), truncating
FacePadding_k12(face_height) == (face_height * 12) \div 10
FacePadding(face_height) == (face_height * 15) \div 10

\* the face branch: crop a clamped window around the first face
FaceCrop(img, face) ==
    LET face_center_x == (face.left + face.right) \div 2
        face_center_y == (face.top + face.bottom) \div 2
        face_height == face.bottom - face.top
        padding == FacePadding(face_height)
        size0 == Max(face.right - face.left, face.bottom - face.top) + (padding * 2)
        crop_size == Min(size0, Min(Width(img), Height(img)))
        left == Max(0, face_center_x - crop_size \div 2)
        top == Max(0, face_center_y - crop_size \div 2)
        right == Min(Width(img), left + crop_size)
        bottom == Min(Height(img), top + crop_size)
    IN  Crop(img, left, top, right, bottom)

\* the centered square of side min(width, height): the no-face branch, and
\* the "crop to square first" step that always follows
CenterSquare_skip(img) == img
CenterSquare_corner(img) ==
    LET size == Min(Width(img), Height(img))
    IN  Crop(img, 0, 0, size, size)
CenterSquare(img) ==
    LET width == Width(img)
        height == Height(img)
        size == Min(width, height)
        left == (width - size) \div 2
        top == (height - size) \div 2
        right == left + size
        bottom == top + size
    IN  Crop(img, left, top, right, bottom)

\* if face_locations: ... else: ...
FirstCrop(img, face_locations) ==
    IF face_locations # <<>> THEN FaceCrop(img, face_locations[1])
    ELSE CenterSquare(img)

\* the region of the source that reaches resize(photo_size)
ResizeRegion(p) == CenterSquare(FirstCrop(ImageOpen(p), p.face_locations))

-----------------------------------------------------------------------------
(* create_id_card: fonts *)

\* try: ImageFont.truetype(...) x2  except OSError: load_default() x2
LoadFonts_nofallback(f) ==
    IF f.name_ok /\ f.info_ok
    THEN [ok |-> TRUE, name_font |-> "truetype", info_font |-> "truetype"]
    ELSE [ok |-> FALSE, name_font |-> "none", info_font |-> "none"]
LoadFonts(f) ==
    IF f.name_ok /\ f.info_ok
    THEN [ok |-> TRUE, name_font |-> "truetype", info_font |-> "truetype"]
    ELSE [ok |-> TRUE, name_font |-> "default", info_font |-> "default"]

-----------------------------------------------------------------------------
(* create_id_card *)

\* The picture behind a row's image path: the file system and the network are
\* outside the program, so rows get their pictures from a fixed table.
SamplePhotos ==
    << [W |-> 8, H |-> 6, face_locations |-> <<>>],
       [W |-> 6, H |-> 8,
        face_locations |-> <<[top |-> 1, right |-> 4, bottom |-> 3, left |-> 2]>>],
       [W |-> 7, H |-> 7,
        face_locations |-> <<[top |-> 0, right |-> 7, bottom |-> 2, left |-> 5]>>] >>
PhotoOf(nm) == SamplePhotos[(nm % Len(SamplePhotos)) + 1]

\* requests.get / Image.open succeed only on a reachable, decodable source
PhotoLoads(photo_path) == photo_path = "ok"

\* base_name_font_size = int(self.template_height * 0.072)
BaseNameFontSize(height) == (height * 72) \div 1000

\* the if / elif chain on len(name): the scale applied to the base size, in
\* percent; src/main.py and src/volunteers.py differ in the last two tiers
NameScalePercent_onetable(v, len) ==
    IF len <= 13 THEN 100
    ELSE IF 14 <= len /\ len <= 15 THEN 85
    ELSE IF 16 <= len /\ len <= 17 THEN 80
    ELSE 70
NameScalePercent(v, len) ==
    IF v = "main"
    THEN IF len <= 13 THEN 100
         ELSE IF 14 <= len /\ len <= 15 THEN 85
         ELSE IF 16 <= len /\ len <= 17 THEN 80
         ELSE 70
    ELSE IF len <= 13 THEN 100
         ELSE IF 14 <= len /\ len <= 15 THEN 85
         ELSE IF 16 <= len /\ len <= 19 THEN 80
         ELSE 65

\* name_font_size = int(base_name_font_size * factor)
NameFontSize(v, len, height) ==
    (BaseNameFontSize(height) * NameScalePercent(v, len)) \div 100

\* The outcome of one call: [raised, card, self].  The whole body is inside
\* try: ... except Exception: return None, so nothing is raised to the caller;
\* the card is drawn on self.template.copy(), so self is left as it was.
create_id_card_propagating(self, nm, photo_path, f) ==
    IF ~PhotoLoads(photo_path) THEN [raised |-> TRUE, card |-> None, self |-> self]
    ELSE LET fl == LoadFonts(f)
         IN  IF ~fl.ok THEN [raised |-> FALSE, card |-> None, self |-> self]
             ELSE [raised |-> FALSE,
                   self |-> self,
                   card |-> [name |-> nm,
                             background |-> self.template,
                             width |-> self.template_width,
                             height |-> self.template_height,
                             photo |-> ResizeRegion(PhotoOf(nm)),
                             name_font_size |-> NameFontSize("main", nm, self.template_height),
                             name_font |-> fl.name_font,
                             info_font |-> fl.info_font]]
create_id_card_nocopy(self, nm, photo_path, f) ==
    IF ~PhotoLoads(photo_path) THEN [raised |-> FALSE, card |-> None, self |-> self]
    ELSE LET fl == LoadFonts(f)
             drawn_on == [self.template EXCEPT !.drawn = @ \cup {nm}]
         IN  IF ~fl.ok THEN [raised |-> FALSE, card |-> None, self |-> self]
             ELSE [raised |-> FALSE,
                   self |-> [self EXCEPT !.template = drawn_on],
                   card |-> [name |-> nm,
                             background |-> self.template,
                             width |-> self.template_width,
                             height |-> self.template_height,
                             photo |-> ResizeRegion(PhotoOf(nm)),
                             name_font_size |-> NameFontSize("main", nm, self.template_height),
                             name_font |-> fl.name_font,
                             info_font |-> fl.info_font]]
create_id_card(self, nm, photo_path, f) ==
    IF ~PhotoLoads(photo_path) THEN [raised |-> FALSE, card |-> None, self |-> self]
    ELSE LET fl == LoadFonts(f)
         IN  IF ~fl.ok THEN [raised |-> FALSE, card |-> None, self |-> self]
             ELSE [raised |-> FALSE,
                   self |-> self,
                   card |-> [name |-> nm,
                             background |-> self.template,
                             width |-> self.template_width,
                             height |-> self.template_height,
                             photo |-> ResizeRegion(PhotoOf(nm)),
                             name_font_size |-> NameFontSize("main", nm, self.template_height),
                             name_font |-> fl.name_font,
                             info_font |-> fl.info_font]]

-----------------------------------------------------------------------------
(* The roster: rows [Name, image].  A name is written as its length (the     *)
(* name of row j is j characters long), image is the state of the photo      *)
(* source behind the path or URL.                                            *)

FailKinds == {"unreachable", "corrupt"}

\* which rows' photo sources fail: none, any single row, every second row,
\* or all of them (1-based positions in the roster)
FailurePatterns(n) ==
    {{}} \cup {{i} : i \in 1..n} \cup {{i \in 1..n : i % 2 = 0}} \cup {1..n}

MkRoster(n, bad, kind) ==
    [j \in 1..n |-> [Name |-> j,
                     image |-> IF j \in bad THEN kind ELSE "ok"]]

-----------------------------------------------------------------------------
(* create_id_cards_sheet *)

\* if idx >= 20: break
SheetFull_never(i) == FALSE
SheetFull(i) == i >= 20

\* row = idx // 5, col = idx % 5
GridRow(i) == i \div 5
GridCol_four(i) == i % 4
GridCol(i) == i % 5

\* the grid slot a card is placed at: the enumerate index
PasteSlot_packed == Len(a4_sheet)
PasteSlot == idx

PasteX(i) ==
    generator.horizontal_padding
      + GridCol(i) * (generator.template_width + generator.horizontal_padding)
PasteY(i) ==
    generator.vertical_padding
      + GridRow(i) * (generator.template_height + generator.vertical_padding)

\* one iteration of the for loop: position, render, paste if card
PlaceCard ==
    /\ pc = "sheet"
    /\ idx < Len(students_data)
    /\ ~SheetFull(idx)
    /\ LET student == students_data[idx + 1]
           x == PasteX(PasteSlot)
           y == PasteY(PasteSlot)
           r == create_id_card(generator, student.Name, student.image, fonts)
       IN  /\ rendered' = Append(rendered, <<sheet_num, idx, student.Name>>)
           /\ generator' = r.self
           /\ IF r.raised
              THEN /\ pc' = "error"
                   /\ UNCHANGED <<idx, a4_sheet>>
              ELSE /\ pc' = pc
                   /\ idx' = idx + 1
                   /\ a4_sheet' = IF r.card # None
                                  THEN Append(a4_sheet, [x |-> x, y |-> y, card |-> r.card])
                                  ELSE a4_sheet
    /\ UNCHANGED <<caller, df, fonts, num_sheets, sheet_num, students_data, outputs>>
    /\ UNCHANGED <<cropVars, wrapVars, fontVars>>

\* the loop ends (batch exhausted, or break at 20): return a4_sheet
ReturnSheet ==
    /\ pc = "sheet"
    /\ (idx >= Len(students_data) \/ SheetFull(idx))
    /\ pc' = IF caller = "driver" THEN "save" ELSE "returned"
    /\ UNCHANGED <<driverVars, cropVars, wrapVars, fontVars>>

\* a client calls generator.create_id_cards_sheet(rows) with a whole roster
DirectCall ==
    /\ pc = "start"
    /\ caller' = "direct"
    /\ students_data' = df
    /\ a4_sheet' = <<>>
    /\ idx' = 0
    /\ pc' = "sheet"
    /\ UNCHANGED <<df, generator, fonts, num_sheets, sheet_num, outputs, rendered>>
    /\ UNCHANGED <<cropVars, wrapVars, fontVars>>

-----------------------------------------------------------------------------
(* __main__ *)

\* num_sheets = (len(df) + 19) // 20
NumSheets_floor(n) == n \div 20
NumSheets(n) == (n + 19) \div 20

ReadRoster ==
    /\ pc = "start"
    /\ caller' = "driver"
    /\ num_sheets' = NumSheets(Len(df))
    /\ sheet_num' = 0
    /\ pc' = "loop"
    /\ UNCHANGED <<df, generator, fonts, students_data, idx, a4_sheet, outputs, rendered>>
    /\ UNCHANGED <<cropVars, wrapVars, fontVars>>

\* for sheet_num in range(num_sheets): slice the next 20 rows and lay them out
NextSheet ==
    /\ pc = "loop"
    /\ sheet_num < num_sheets
    /\ LET start_idx == sheet_num * 20
       IN  students_data' = Slice(df, start_idx, start_idx + 20)
    /\ a4_sheet' = <<>>
    /\ idx' = 0
    /\ pc' = "sheet"
    /\ UNCHANGED <<caller, df, generator, fonts, num_sheets, sheet_num, outputs, rendered>>
    /\ UNCHANGED <<cropVars, wrapVars, fontVars>>

\* sheet.save(f"outputs/ID_Cards_Sheet_{sheet_num + 1}.png")
SaveSheet ==
    /\ pc = "save"
    /\ outputs' = Append(outputs, a4_sheet)
    /\ sheet_num' = sheet_num + 1
    /\ pc' = "loop"
    /\ UNCHANGED <<caller, df, generator, fonts, num_sheets, students_data, idx, a4_sheet, rendered>>
    /\ UNCHANGED <<cropVars, wrapVars, fontVars>>

\* print("ID card sheets generated successfully!")
Finish ==
    /\ pc = "loop"
    /\ sheet_num >= num_sheets
    /\ pc' = "done"
    /\ UNCHANGED <<driverVars, cropVars, wrapVars, fontVars>>

IdleCrop ==
    /\ photo = [W |-> 1, H |-> 1, face_locations |-> <<>>]
    /\ profile_photo = None
    /\ resized = None
IdleWrap ==
    /\ text = <<>>
    /\ max_width = 0
    /\ lines = <<>>
IdleFont ==
    /\ variant = "main"
    /\ name = 0
    /\ name_font_size = 0
IdleDriver ==
    /\ generator = NewGenerator("template1.png")
    /\ caller = "none"
    /\ df = <<>>
    /\ fonts = [name_ok |-> TRUE, info_ok |-> TRUE]
    /\ num_sheets = 0
    /\ sheet_num = 0
    /\ students_data = <<>>
    /\ idx = 0
    /\ a4_sheet = <<>>
    /\ outputs = <<>>
    /\ rendered = <<>>

Init ==
    /\ pc = "start"
    /\ caller = "none"
    /\ \E n \in 0..MaxRows :
          \E bad \in FailurePatterns(n), kind \in FailKinds :
             df = MkRoster(n, bad, kind)
    /\ fonts \in [name_ok : BOOLEAN, info_ok : BOOLEAN]
    /\ num_sheets = 0
    /\ sheet_num = 0
    /\ students_data = <<>>
    /\ idx = 0
    /\ a4_sheet = <<>>
    /\ outputs = <<>>
    /\ rendered = <<>>
    /\ generator = NewGenerator("template1.png")
    /\ IdleCrop
    /\ IdleWrap
    /\ IdleFont

Next ==
    \/ ReadRoster
    \/ NextSheet
    \/ PlaceCard
    \/ ReturnSheet
    \/ SaveSheet
    \/ Finish
    \/ DirectCall

Spec == Init /\ [][Next]_vars

-----------------------------------------------------------------------------
(* SpecCrop: the photo crop of create_id_card, one step per statement group, *)
(* over every photo size and every answer of the face detector.              *)

\* face boxes (top, right, bottom, left) inside a W x H image
FaceBoxes(W, H) ==
    UNION {{[top |-> t, right |-> r, bottom |-> b, left |-> l] :
               r \in (l + 1)..W, b \in (t + 1)..H} :
           l \in 0..(W - 1), t \in 0..(H - 1)}

\* a second face the detector may list after the first
OtherFace == [top |-> 0, right |-> 1, bottom |-> 1, left |-> 0]

\* what the detector may answer for a W x H image: no face, one, or two
FaceLists(W, H) ==
    {<<>>} \cup {<<f>> : f \in FaceBoxes(W, H)}
           \cup {<<f, OtherFace>> : f \in FaceBoxes(W, H)}

\* profile_photo = Image.open(...); face_locations = face_recognition...(...)
OpenPhoto ==
    /\ pc = "open"
    /\ profile_photo' = ImageOpen(photo)
    /\ pc' = "detected"
    /\ UNCHANGED <<photo, resized, driverVars, wrapVars, fontVars>>

\* if face_locations: crop around the first face
CropFace ==
    /\ pc = "detected"
    /\ photo.face_locations # <<>>
    /\ profile_photo' = FaceCrop(profile_photo, photo.face_locations[1])
    /\ pc' = "cropped"
    /\ UNCHANGED <<photo, resized, driverVars, wrapVars, fontVars>>

\* else: center crop
CropCenter ==
    /\ pc = "detected"
    /\ photo.face_locations = <<>>
    /\ profile_photo' = CenterSquare(profile_photo)
    /\ pc' = "cropped"
    /\ UNCHANGED <<photo, resized, driverVars, wrapVars, fontVars>>

\* "Crop to square first"
CropSquare ==
    /\ pc = "cropped"
    /\ profile_photo' = CenterSquare(profile_photo)
    /\ pc' = "square"
    /\ UNCHANGED <<photo, resized, driverVars, wrapVars, fontVars>>

\* profile_photo.resize(photo_size, LANCZOS)
Resize ==
    /\ pc = "square"
    /\ resized' = profile_photo
    /\ pc' = "resized"
    /\ UNCHANGED <<photo, profile_photo, driverVars, wrapVars, fontVars>>

InitCrop ==
    /\ pc = "open"
    /\ \E W \in 1..MaxDim, H \in 1..MaxDim :
          \E fl \in FaceLists(W, H) :
             photo = [W |-> W, H |-> H, face_locations |-> fl]
    /\ profile_photo = None
    /\ resized = None
    /\ IdleDriver
    /\ IdleWrap
    /\ IdleFont

NextCrop ==
    \/ OpenPhoto
    \/ CropFace
    \/ CropCenter
    \/ CropSquare
    \/ Resize

SpecCrop == InitCrop /\ [][NextCrop]_vars

-----------------------------------------------------------------------------
(* SpecWrap: wrap_text of src/volunteers.py.  A text is a sequence of        *)
(* characters; a word and a line are texts too.                              *)

Whitespace == {" ", "\t"}
Alphabet == {"i", "m"} \cup Whitespace

Texts(maxlen) == UNION {[1..n -> Alphabet] : n \in 0..maxlen}

\* text.split(): the maximal runs of non-whitespace characters, in order
RECURSIVE SplitFrom(_, _, _, _)
SplitFrom(t, k, words, word) ==
    IF k > Len(t) THEN (IF word = <<>> THEN words ELSE Append(words, word))
    ELSE IF t[k] \in Whitespace
         THEN SplitFrom(t, k + 1, IF word = <<>> THEN words ELSE Append(words, word), <<>>)
         ELSE SplitFrom(t, k + 1, words, Append(word, t[k]))
Split(t) == SplitFrom(t, 1, <<>>, <<>>)

\* ' '.join(parts)
RECURSIVE Join(_)
Join(parts) ==
    IF parts = <<>> THEN <<>>
    ELSE IF Len(parts) = 1 THEN parts[1]
    ELSE parts[1] \o <<" ">> \o Join(Tail(parts))

\* bbox[2] - bbox[0] of draw.textbbox((0, 0), line, font=info_font): the sum
\* of the glyph advances, a narrow "i", a wide "m" and a space
GlyphWidth(c) == IF c = "m" THEN 2 ELSE 1
RECURSIVE TextWidth(_)
TextWidth(t) == IF t = <<>> THEN 0 ELSE GlyphWidth(Head(t)) + TextWidth(Tail(t))

\* one iteration of "for word in words", on st = [lines, current_line]
WrapStep_nopop(st, word, maxw) ==
    LET appended == Append(st.current_line, word)
        test_line == Join(appended)
    IN  IF TextWidth(test_line) > maxw
        THEN [lines |-> Append(st.lines, test_line), current_line |-> <<>>]
        ELSE [lines |-> st.lines, current_line |-> appended]
WrapStep_dropword(st, word, maxw) ==
    LET appended == Append(st.current_line, word)
        test_line == Join(appended)
    IN  IF TextWidth(test_line) > maxw
        THEN IF Len(appended) > 1
             THEN [lines |-> Append(st.lines, Join(st.current_line)),
                   current_line |-> <<>>]
             ELSE [lines |-> Append(st.lines, test_line), current_line |-> <<>>]
        ELSE [lines |-> st.lines, current_line |-> appended]
WrapStep(st, word, maxw) ==
    LET appended == Append(st.current_line, word)
        test_line == Join(appended)
    IN  IF TextWidth(test_line) > maxw
        THEN IF Len(appended) > 1
             THEN [lines |-> Append(st.lines, Join(st.current_line)),
                   current_line |-> <<word>>]
             ELSE [lines |-> Append(st.lines, test_line), current_line |-> <<>>]
        ELSE [lines |-> st.lines, current_line |-> appended]

RECURSIVE WrapLoop(_, _, _, _)
WrapLoop(words, k, st, maxw) ==
    IF k > Len(words) THEN st
    ELSE WrapLoop(words, k + 1, WrapStep(st, words[k], maxw), maxw)

wrap_text(t, maxw) ==
    LET words == Split(t)
        st == WrapLoop(words, 1, [lines |-> <<>>, current_line |-> <<>>], maxw)
    IN  IF st.current_line # <<>>
        THEN Append(st.lines, Join(st.current_line))
        ELSE st.lines

\* ministry_lines = wrap_text(ministry, info_font, max_text_width)
WrapText ==
    /\ pc = "call"
    /\ lines' = wrap_text(text, max_width)
    /\ pc' = "wrapped"
    /\ UNCHANGED <<text, max_width, driverVars, cropVars, fontVars>>

InitWrap ==
    /\ pc = "call"
    /\ text \in Texts(MaxTextLen)
    /\ max_width \in 0..MaxWidth
    /\ lines = <<>>
    /\ IdleDriver
    /\ IdleCrop
    /\ IdleFont

NextWrap == WrapText

SpecWrap == InitWrap /\ [][NextWrap]_vars

-----------------------------------------------------------------------------
(* SpecFont: the name font size selection of create_id_card, for both files  *)
(* and every name length.                                                    *)

TemplateOf(v) == IF v = "main" THEN "template1.png" ELSE "template2.png"

\* base_name_font_size = ...; if len(name) <= 13: ... else: ...
SelectNameFontSize ==
    /\ pc = "name"
    /\ name_font_size' = NameFontSize(variant, name, generator.template_height)
    /\ pc' = "sized"
    /\ UNCHANGED <<variant, name, driverVars, cropVars, wrapVars>>

InitFont ==
    /\ pc = "name"
    /\ variant \in {"main", "volunteers"}
    /\ name \in 0..MaxNameLen
    /\ name_font_size = 0
    /\ generator = NewGenerator(TemplateOf(variant))
    /\ caller = "none"
    /\ df = <<>>
    /\ fonts = [name_ok |-> TRUE, info_ok |-> TRUE]
    /\ num_sheets = 0
    /\ sheet_num = 0
    /\ students_data = <<>>
    /\ idx = 0
    /\ a4_sheet = <<>>
    /\ outputs = <<>>
    /\ rendered = <<>>
    /\ IdleCrop
    /\ IdleWrap

NextFont == SelectNameFontSize

SpecFont == InitFont /\ [][NextFont]_vars

-----------------------------------------------------------------------------
(* Properties of the driver run and of create_id_cards_sheet (Spec) *)

\* every sheet there is: the one being laid out and the saved ones
Sheets == {a4_sheet} \cup {outputs[k] : k \in 1..Len(outputs)}

\* the stated grid: 4 rows x 5 columns of 768 x 1299 cards on 3900 x 5700
StatedHPad == (3900 - 5 * 768) \div 6
StatedVPad == (5700 - 4 * 1299) \div 5
StatedX(i) == StatedHPad + (i % 5) * (768 + StatedHPad)
StatedY(i) == StatedVPad + (i \div 5) * (1299 + StatedVPad)

\* the pastes of a sheet that sit at grid slot i
PastesAt(sheet, i) ==
    {k \in 1..Len(sheet) : sheet[k].x = StatedX(i) /\ sheet[k].y = StatedY(i)}

\* ceil(n / 20), stated without the code's rounding trick
IsCeilDiv20(k, n) == (n = 0 /\ k = 0) \/ (k >= 1 /\ 20 * (k - 1) < n /\ n <= 20 * k)

AllPhotosOk == \A j \in 1..Len(df) : df[j].image = "ok"
FontMissing == ~fonts.name_ok \/ ~fonts.info_ok

\* C1: no sheet ever holds more than 20 cards; a call given more than 20 rows
\* renders and pastes only the first 20 and drops the rest; the driver puts
\* roster row j on sheet j div 20, so overflow rows go to a new sheet.
C1_SheetCapacity ==
    /\ \A sheet \in Sheets : Len(sheet) <= 20
    /\ idx <= 20
    /\ caller = "direct" =>
          /\ Len(rendered) = idx
          /\ \A k \in 1..Len(rendered) : rendered[k] = <<0, k - 1, df[k].Name>>
          /\ \A k \in 1..Len(a4_sheet) : a4_sheet[k].card.name <= 20
          /\ pc = "returned" => idx = Min(20, Len(df))
    /\ caller = "driver" =>
          /\ \A s \in 1..Len(outputs) : \A k \in 1..Len(outputs[s]) :
                (outputs[s][k].card.name - 1) \div 20 = s - 1
          /\ pc \in {"sheet", "save"} =>
                \A k \in 1..Len(a4_sheet) :
                   (a4_sheet[k].card.name - 1) \div 20 = sheet_num

C1_Witness ==
    /\ pc = "returned"
    /\ Len(students_data) > 20
    /\ Len(a4_sheet) = 20
    /\ Len(rendered) = 20

\* C2: a roster of N rows gives exactly ceil(N/20) sheets, and row j is
\* rendered exactly once, for slot j mod 20 of sheet j div 20, in roster
\* order; 23 rows that all render give 2 sheets, the second with 3 populated
\* and 17 blank slots.
C2_Pagination ==
    caller = "driver" =>
       /\ \A k \in 1..Len(rendered) :
             rendered[k] = <<(k - 1) \div 20, (k - 1) % 20, df[k].Name>>
       /\ Len(rendered) <= Len(df)
       /\ pc = "done" =>
             /\ IsCeilDiv20(Len(outputs), Len(df))
             /\ Len(rendered) = Len(df)
             /\ \A s \in 1..Len(outputs) :
                   Cardinality({k \in 1..Len(rendered) : rendered[k][1] = s - 1})
                     = IF s < Len(outputs) THEN 20 ELSE Len(df) - 20 * (Len(outputs) - 1)
             /\ (Len(df) = 23 /\ AllPhotosOk) =>
                   /\ Len(outputs) = 2
                   /\ Len(outputs[1]) = 20
                   /\ {i \in 0..19 : PastesAt(outputs[2], i) # {}} = {0, 1, 2}
                   /\ Cardinality({i \in 0..19 : PastesAt(outputs[2], i) = {}}) = 17

C2_Witness ==
    /\ pc = "done"
    /\ Len(df) = 23
    /\ AllPhotosOk
    /\ Len(outputs) = 2
    /\ Len(outputs[2]) = 3

\* the batch index of the row a pasted card was rendered from
BatchIndexOf(p) == CHOOSE i \in 0..(Len(students_data) - 1) :
                       students_data[i + 1].Name = p.card.name

\* C3: card i of the batch is pasted with its top-left corner at
\* (h_pad + col*(card_w + h_pad), v_pad + row*(card_h + v_pad)), row = i // 5,
\* col = i % 5, whether or not earlier cards of the batch rendered.
C3_GridPosition ==
    \A k \in 1..Len(a4_sheet) :
       LET p == a4_sheet[k]
           i == BatchIndexOf(p)
       IN  /\ \E j \in 0..(Len(students_data) - 1) :
                 students_data[j + 1].Name = p.card.name
           /\ i \in 0..19
           /\ p.x = StatedX(i)
           /\ p.y = StatedY(i)
           /\ p.card.width = 768
           /\ p.card.height = 1299

C3_Witness ==
    /\ pc = "sheet"
    /\ Len(students_data) = 20
    /\ students_data[2].image # "ok"
    /\ students_data[4].image # "ok"
    /\ \E k \in 1..Len(a4_sheet) :
          /\ BatchIndexOf(a4_sheet[k]) = 18
          /\ a4_sheet[k].x = StatedX(18)
          /\ a4_sheet[k].y = StatedY(18)

Rect(p) == [left |-> p.x, top |-> p.y,
            right |-> p.x + p.card.width, bottom |-> p.y + p.card.height]
Overlap(a, b) ==
    a.left < b.right /\ b.left < a.right /\ a.top < b.bottom /\ b.top < a.bottom

\* C4: on any sheet no two placed cards overlap, every placed card lies
\* inside the 3900 x 5700 canvas, and both paddings are >= 0.
C4_NoOverlap ==
    /\ horizontal_padding >= 0
    /\ vertical_padding >= 0
    /\ \A sheet \in Sheets :
          /\ \A k \in 1..Len(sheet) :
                LET r == Rect(sheet[k])
                IN  /\ 0 <= r.left /\ r.right <= 3900
                    /\ 0 <= r.top /\ r.bottom <= 5700
                    /\ r.right - r.left = 768
                    /\ r.bottom - r.top = 1299
          /\ \A k, m \in 1..Len(sheet) :
                k # m => ~Overlap(Rect(sheet[k]), Rect(sheet[m]))

C4_Witness ==
    /\ Len(a4_sheet) = 20
    /\ \A i \in 0..19 : Cardinality(PastesAt(a4_sheet, i)) = 1

\* C5: a row whose render fails gives None, nothing is raised, its slot
\* stays blank, every other row is pasted at the slot it would have had, and
\* the run completes with the same number of sheets.
C5_FailureIsolated ==
    /\ pc # "error"
    /\ \A j \in 1..Len(df) :
          df[j].image # "ok" =>
             LET r == create_id_card(generator, df[j].Name, df[j].image, fonts)
             IN  ~r.raised /\ r.card = None
    /\ (caller = "driver" /\ pc = "done") =>
          /\ IsCeilDiv20(Len(outputs), Len(df))
          /\ \A j \in 1..Len(df) :
                LET sheet == outputs[((j - 1) \div 20) + 1]
                    at == PastesAt(sheet, (j - 1) % 20)
                IN  IF df[j].image = "ok"
                    THEN /\ Cardinality(at) = 1
                         /\ \A k \in at : sheet[k].card.name = df[j].Name
                    ELSE at = {}
          /\ \A s \in 1..Len(outputs) :
                Len(outputs[s]) =
                   Cardinality({j \in 1..Len(df) :
                                   (j - 1) \div 20 = s - 1 /\ df[j].image = "ok"})

C5_Witness ==
    /\ caller = "driver"
    /\ pc = "done"
    /\ Len(df) = 23
    /\ df[2].image = "unreachable"
    /\ \A j \in 1..Len(df) : j # 2 => df[j].image = "ok"
    /\ Len(outputs) = 2
    /\ Len(outputs[1]) = 19
    /\ PastesAt(outputs[1], 1) = {}
    /\ PastesAt(outputs[1], 2) # {}

\* C6: a font file that fails to load makes the render fall back to the
\* default font; it alone never fails the card, which is still pasted.
C6_FontFallback ==
    /\ \A sheet \in Sheets : \A k \in 1..Len(sheet) :
          /\ sheet[k].card.name_font = IF FontMissing THEN "default" ELSE "truetype"
          /\ sheet[k].card.info_font = IF FontMissing THEN "default" ELSE "truetype"
    /\ (FontMissing /\ pc \in {"done", "returned"}) =>
          \A j \in 1..Len(df) :
             (df[j].image = "ok" /\ (caller = "driver" \/ j <= 20)) =>
                \E sheet \in Sheets : \E k \in 1..Len(sheet) :
                   sheet[k].card.name = df[j].Name

C6_Witness ==
    /\ pc = "done"
    /\ ~fonts.name_ok
    /\ fonts.info_ok
    /\ Len(outputs) = 2
    /\ Len(outputs[2]) >= 1
    /\ outputs[2][1].card.name_font = "default"

-----------------------------------------------------------------------------
(* Properties of the photo crop (SpecCrop) *)

HasFace == photo.face_locations # <<>>
FirstFace == photo.face_locations[1]

\* C7: with no face detected, the region resized to the target photo size is
\* exactly the centered square of side min(W, H).
C7_CenterCropNoFace ==
    (pc = "resized" /\ ~HasFace) =>
       LET s == Min(photo.W, photo.H)
           ox == (photo.W - s) \div 2
           oy == (photo.H - s) \div 2
       IN  resized = [left |-> ox, top |-> oy, right |-> ox + s, bottom |-> oy + s]

C7_Witness ==
    /\ pc = "resized"
    /\ ~HasFace
    /\ photo.W = 7
    /\ photo.H = 4
    /\ resized = [left |-> 1, top |-> 0, right |-> 5, bottom |-> 4]

IsSquareInside(img) ==
    /\ 0 <= img.left /\ img.left < img.right /\ img.right <= photo.W
    /\ 0 <= img.top /\ img.top < img.bottom /\ img.bottom <= photo.H
    /\ img.right - img.left = img.bottom - img.top

\* C8: whatever the detector answers, the region handed to the resize step
\* is a non-empty square inside the source image, and the square post-step
\* leaves an already-square crop unchanged.
C8_SquareInsideSource ==
    /\ pc \in {"square", "resized"} => IsSquareInside(profile_photo)
    /\ pc = "resized" => IsSquareInside(resized) /\ resized = profile_photo
    /\ (pc \in {"cropped", "square", "resized"}
          /\ Width(profile_photo) = Height(profile_photo)) =>
             CenterSquare(profile_photo) = profile_photo

\* a face crop clamped to a non-square window, squared by the post-step
C8_Witness ==
    /\ pc = "resized"
    /\ HasFace
    /\ LET first == FaceCrop(ImageOpen(photo), FirstFace)
       IN  /\ Width(first) # Height(first)
           /\ Width(resized) = Min(Width(first), Height(first))
    /\ IsSquareInside(resized)

\* round(x * 1.5) for an integer x >= 0, ties to even as Python's round
RoundHalfEven15(x) ==
    IF x % 2 = 0 THEN (3 * x) \div 2
    ELSE LET k == (3 * x - 1) \div 2
         IN  IF k % 2 = 0 THEN k ELSE k + 1

\* the crop rectangle of the formula, for a padding rule; "/" read as the
\* integer division the pixel coordinates need
FormulaCrop(W, H, f, padding) ==
    LET face_w == f.right - f.left
        face_h == f.bottom - f.top
        crop_size == Min(Max(face_w, face_h) + 2 * padding, Min(W, H))
        ox == Max(0, (f.left + f.right) \div 2 - crop_size \div 2)
        oy == Max(0, (f.top + f.bottom) \div 2 - crop_size \div 2)
    IN  [left |-> ox, top |-> oy,
         right |-> Min(W, ox + crop_size), bottom |-> Min(H, oy + crop_size)]

\* C9 as stated: the face-path crop rectangle equals the formula with
\* padding = round(face_h * 1.5).
C9_AsStated ==
    (pc = "cropped" /\ HasFace) =>
       profile_photo = FormulaCrop(photo.W, photo.H, FirstFace,
                                   RoundHalfEven15(FirstFace.bottom - FirstFace.top))

\* C9 amended: the face-path crop rectangle equals the formula with the
\* padding truncated, padding = floor(face_h * 1.5), and the center and the
\* half crop size taken by floor division.
C9_FaceCropTruncated ==
    (pc = "cropped" /\ HasFace) =>
       LET face_h == FirstFace.bottom - FirstFace.top
           twice == 3 * face_h
           padding == IF twice % 2 = 0 THEN twice \div 2 ELSE (twice - 1) \div 2
       IN  profile_photo = FormulaCrop(photo.W, photo.H, FirstFace, padding)

\* an unclamped window around a face of height 1: padding 1, crop_size 3
C9_Witness ==
    /\ pc = "cropped"
    /\ photo.W = 7
    /\ photo.H = 6
    /\ Len(photo.face_locations) = 2
    /\ FirstFace = [top |-> 3, right |-> 5, bottom |-> 4, left |-> 4]
    /\ profile_photo = [left |-> 3, top |-> 2, right |-> 6, bottom |-> 5]

-----------------------------------------------------------------------------
(* Properties of wrap_text (SpecWrap) *)

\* the words of every line, one line after the other
RECURSIVE WordsOfLines(_)
WordsOfLines(ls) ==
    IF ls = <<>> THEN <<>> ELSE Split(Head(ls)) \o WordsOfLines(Tail(ls))

\* C10: the returned lines joined with single spaces equal the
\* whitespace-normalized input: every word once, in order, none split, and
\* no line is empty.
C10_WrapRoundTrip ==
    pc = "wrapped" =>
       /\ Join(lines) = Join(Split(text))
       /\ WordsOfLines(lines) = Split(text)
       /\ \A k \in 1..Len(lines) :
             /\ lines[k] # <<>>
             /\ lines[k] = Join(Split(lines[k]))

\* "mm" fits, "mm i" does not: two lines, the tab and the double whitespace gone
C10_Witness ==
    /\ pc = "wrapped"
    /\ text = <<"m", "m", "\t", " ", "i">>
    /\ max_width = 4
    /\ lines = << <<"m", "m">>, <<"i">> >>

\* C11: every returned line wider than max_width is a single word; a line of
\* two or more words measures at most max_width, also when an over-wide
\* single word is followed by further words.
C11_OnlySingleWordOverflows ==
    pc = "wrapped" =>
       \A k \in 1..Len(lines) :
          /\ TextWidth(lines[k]) > max_width => Len(Split(lines[k])) = 1
          /\ Len(Split(lines[k])) >= 2 => TextWidth(lines[k]) <= max_width

\* the over-wide "mmm" is kept whole on its own line and "i" follows it
C11_Witness ==
    /\ pc = "wrapped"
    /\ text = <<"m", "m", "m", " ", "i">>
    /\ max_width = 4
    /\ lines = << <<"m", "m", "m">>, <<"i">> >>
    /\ TextWidth(lines[1]) > max_width

\* C14: whenever a face is detected, the final square region handed to the
\* resize step contains the face box's center point
\* ((left+right)//2, (top+bottom)//2), also when the crop was clamped.
C14_FaceCenterInside ==
    (pc = "resized" /\ HasFace) =>
       LET cx == (FirstFace.left + FirstFace.right) \div 2
           cy == (FirstFace.top + FirstFace.bottom) \div 2
       IN  /\ resized.left <= cx /\ cx < resized.right
           /\ resized.top <= cy /\ cy < resized.bottom

-----------------------------------------------------------------------------
(* Properties of the name font size selection (SpecFont) *)

\* 7.2% of the template height, as a whole number of pixels
StatedBase == (1299 * 72) \div 1000

\* the table {<=13: 1.0, 14-15: 0.85, 16-19: 0.80, otherwise: 0.65}, in percent
StatedPercent(len) ==
    IF len <= 13 THEN 100
    ELSE IF len <= 15 THEN 85
    ELSE IF len <= 19 THEN 80
    ELSE 65

\* the table of src/main.py: {<=13: 1.0, 14-15: 0.85, 16-17: 0.80, otherwise: 0.70}
MainPercent(len) ==
    IF len <= 13 THEN 100
    ELSE IF len <= 15 THEN 85
    ELSE IF len <= 17 THEN 80
    ELSE 70

SizeFor(v, len) ==
    (StatedBase * (IF v = "main" THEN MainPercent(len) ELSE StatedPercent(len))) \div 100

\* C12 as stated: the selection follows {<=13: 1.0, 14-15: 0.85, 16-19: 0.80,
\* otherwise: 0.65} for every name length, a name of length 20 selecting 0.65.
C12_AsStated ==
    pc = "sized" =>
       /\ name_font_size = (StatedBase * StatedPercent(name)) \div 100
       /\ name = 20 => name_font_size = (StatedBase * 65) \div 100

\* C12 amended: the selection is total; in src/volunteers.py it follows the
\* stated table (length 20 selects 0.65), in src/main.py the table
\* {<=13: 1.0, 14-15: 0.85, 16-17: 0.80, otherwise: 0.70} (length 20 selects
\* 0.70); the size is int(base * factor) with base = int(0.072 * 1299) = 93,
\* and it never increases as the name gets longer.
C12_NameFontScale ==
    pc = "sized" =>
       /\ name_font_size = SizeFor(variant, name)
       /\ name_font_size \in {93, 79, 74, 65, 60}
       /\ name = 20 => name_font_size = IF variant = "main" THEN 65 ELSE 60
       /\ \A shorter \in 0..name : SizeFor(variant, shorter) >= name_font_size

C12_Witness ==
    /\ pc = "sized"
    /\ variant = "volunteers"
    /\ name = 20
    /\ name_font_size = 60

-----------------------------------------------------------------------------
(* The generator object across renders (Spec) *)

\* the card a row gives when it is rendered alone by a fresh generator
RenderedAlone(nm) ==
    create_id_card(NewGenerator("template1.png"), nm, "ok", fonts).card

\* C13: after any sequence of renders, failed or not, the generator's
\* template and geometry fields are as loaded, and the bitmap of a row
\* depends only on that row's inputs, not on the rows rendered before it.
C13_GeneratorUnchanged ==
    /\ generator = NewGenerator("template1.png")
    /\ generator.template.drawn = {}
    /\ \A sheet \in Sheets : \A k \in 1..Len(sheet) :
          /\ sheet[k].card = RenderedAlone(sheet[k].card.name)
          /\ sheet[k].card.background = LoadTemplate("template1.png")

C13_Witness ==
    /\ pc = "done"
    /\ Len(df) = 23
    /\ df[2].image = "corrupt"
    /\ df[4].image = "corrupt"
    /\ Len(rendered) = 23
    /\ Len(outputs) = 2
    /\ Len(outputs[1]) = 10
    /\ generator = NewGenerator("template1.png")


====
